---- MODULE Spec2Model ----
(***************************************************************************)
(* Model of the hash verification code of pyqldbsamples (verifier.py) and  *)
(* of the callers that drive it (get_block.py, get_revision.py).           *)
(*                                                                         *)
(* A hash is a sequence of bytes (0..255).  The outcome of a call is a     *)
(* record: Returned(v) for a normal return, Raised(e) for an exception.    *)
(***************************************************************************)
EXTENDS Integers, Sequences, FiniteSets, TLC

\* verifier.py: HASH_LENGTH = 32, UPPER_BOUND = 8
HASH_LENGTH == 32
UPPER_BOUND == 8

\* constants.py: RETRY_LIMIT = 4; export_journal.py: MAX_RETRY_COUNT = 40
RETRY_LIMIT == 4
MAX_RETRY_COUNT == 40

\* Longest proof list the ledger hands to the verifier in this model.
MaxProofLen == 2

\* Longest list of journal blocks handed to the chain validation.
MaxBlocks == 3

\* Number of threads that call the verifier at the same time.
NThreads == 2

\* Most journal block structs in the text of one S3 object.
MaxStructs == 3

VARIABLES
    entry,          \* which entry point is driven: "hash_pair" or "verify"
    pc,             \* the last call made
    hash1, hash2,   \* arguments of compare_hash_values / join_hash_pairwise
    document_hash,  \* the revision / block hash received from the ledger
    digest,         \* the ledger digest received from the ledger
    proof,          \* the Proof object received from the ledger
    altered,        \* which argument flip_random_bit altered, "none" if none
    args,           \* arguments of the verify_document call made or pending
    ret,            \* outcome of the last call
    export,         \* the journal export in S3 that read_export reads
    journal_blocks, \* the list validate_qldb_hash_chain.verify is called with
    reduced,        \* how many elements of journal_blocks reduce has taken
    previous_journal_block, \* the accumulator of reduce(compare_journal_blocks, ...)
    examined,       \* the checks compare_journal_blocks has made so far, in order
    threads,        \* per thread: the frame of the call it is running
    new_hash_lib,   \* per thread: the message fed to the sha256 object of its frame
    s3_object,      \* the content of an S3 data file that get_journal_blocks parses
    occ,            \* the OCC demo: its transactions and its position
    wait            \* wait_for_export_to_complete: its count and its position

chain_vars == <<export, journal_blocks, reduced, previous_journal_block, examined>>

thread_vars == <<threads, new_hash_lib>>

demo_vars == <<occ, wait>>

vars == <<entry, pc, hash1, hash2, document_hash, digest, proof, altered, args, ret,
          chain_vars, thread_vars, s3_object, demo_vars>>

---------------------------------------------------------------------------
\* Outcomes of a call.

Returned(v) == [exc |-> "none", value |-> v]

Raised(e) == [exc |-> e, value |-> <<>>]

NoCall == [exc |-> "nocall", value |-> <<>>]

---------------------------------------------------------------------------
\* Bytes.

RECURSIVE Pow2(_)
Pow2(n) == IF n = 0 THEN 1 ELSE 2 * Pow2(n - 1)

\* bit k of byte b
BitOf(b, k) == (b \div Pow2(k)) % 2

\* byte | (1 << k): sets the bit, and leaves a bit that is set as it is
OrBit(b, k) == IF BitOf(b, k) = 1 THEN b ELSE b + Pow2(k)

\* b ^ (1 << k) on a byte
XorBit(b, k) == IF BitOf(b, k) = 1 THEN b - Pow2(k) ELSE b + Pow2(k)

\* array('b', ...): a byte read as a signed char, -128..127
SignedByte(b) == IF b > 127 THEN b - 256 ELSE b

\* array_b with the bytes read unsigned, as array('B', ...) reads them
array_B(h) == [i \in 1..Len(h) |-> h[i]]

array_b(h) == [i \in 1..Len(h) |-> SignedByte(h[i])]

---------------------------------------------------------------------------
\* hashlib.sha256, as a collision-free function onto 32-byte values.  The
\* digest of a message lists the (position, value) pairs of the message's
\* non-zero bytes, padded with zero bytes to HASH_LENGTH: two messages with
\* the same digest are the same message.  The encoding fits for messages with
\* at most HASH_LENGTH \div 2 non-zero bytes; on any other message the
\* evaluation fails (an out-of-domain application) instead of colliding.

RECURSIVE NonZeroPairs(_, _)
NonZeroPairs(m, i) ==
    IF i > Len(m) THEN <<>>
    ELSE IF m[i] = 0 THEN NonZeroPairs(m, i + 1)
    ELSE <<i, m[i]>> \o NonZeroPairs(m, i + 1)

SHA256(m) ==
    LET enc == NonZeroPairs(m, 1)
    IN  IF Len(enc) > HASH_LENGTH
        THEN [i \in 1..HASH_LENGTH |-> enc[HASH_LENGTH + 1 + Len(enc)]]
        ELSE [i \in 1..HASH_LENGTH |-> IF i <= Len(enc) THEN enc[i] ELSE 0]

---------------------------------------------------------------------------
\* verifier.py

\* flip_random_bit: altered_position and bit_shift are the two randrange draws
flip_random_bit(original, altered_position, bit_shift) ==
    IF Len(original) = 0 THEN Raised("AssertionError")
    ELSE Returned([original EXCEPT
            ![altered_position + 1] = XorBit(original[altered_position + 1], bit_shift)])

\* the loop of compare_hash_values with the difference kept in a signed byte
RECURSIVE ScanDown_wrapping(_, _, _)
ScanDown_wrapping(hash_array1, hash_array2, i) ==
    IF i < 0 THEN 0
    ELSE LET difference == hash_array1[i + 1] - hash_array2[i + 1]
         IN  IF difference # 0 THEN ((difference + 128) % 256) - 128
             ELSE ScanDown_wrapping(hash_array1, hash_array2, i - 1)

\* the loop of compare_hash_values: for i in range(len - 1, -1, -1)
RECURSIVE ScanDown(_, _, _)
ScanDown(hash_array1, hash_array2, i) ==
    IF i < 0 THEN 0
    ELSE LET difference == hash_array1[i + 1] - hash_array2[i + 1]
         IN  IF difference # 0 THEN difference
             ELSE ScanDown(hash_array1, hash_array2, i - 1)

compare_hash_values(h1, h2) ==
    IF Len(h1) # HASH_LENGTH \/ Len(h2) # HASH_LENGTH
    THEN Raised("AssertionError")
    ELSE Returned(ScanDown(array_b(h1), array_b(h2), Len(h1) - 1))

\* join_hash_pairwise without the returns for a zero-length hash
join_hash_pairwise_no_skip(h1, h2) ==
    LET c == compare_hash_values(h1, h2)
    IN  IF c.exc # "none" THEN Raised(c.exc)
        ELSE Returned(SHA256(IF c.value < 0 THEN h1 \o h2 ELSE h2 \o h1))

\* join_hash_pairwise without the sort: always hash1 + hash2
join_hash_pairwise_unsorted(h1, h2) ==
    IF Len(h1) = 0 THEN Returned(h2)
    ELSE IF Len(h2) = 0 THEN Returned(h1)
    ELSE LET c == compare_hash_values(h1, h2)
         IN  IF c.exc # "none" THEN Raised(c.exc)
             ELSE Returned(SHA256(h1 \o h2))

\* join_hash_pairwise with the sort reversed: hash1 + hash2 if compare > 0
join_hash_pairwise_descending(h1, h2) ==
    IF Len(h1) = 0 THEN Returned(h2)
    ELSE IF Len(h2) = 0 THEN Returned(h1)
    ELSE LET c == compare_hash_values(h1, h2)
         IN  IF c.exc # "none" THEN Raised(c.exc)
             ELSE Returned(SHA256(IF c.value > 0 THEN h1 \o h2 ELSE h2 \o h1))

\* join_hash_pairwise with the second early return copied from the first:
\* if len(hash2) == 0: return hash2
join_hash_pairwise_copied_return(h1, h2) ==
    IF Len(h1) = 0 THEN Returned(h2)
    ELSE IF Len(h2) = 0 THEN Returned(h2)
    ELSE LET c == compare_hash_values(h1, h2)
         IN  IF c.exc # "none" THEN Raised(c.exc)
             ELSE Returned(SHA256(IF c.value < 0 THEN h1 \o h2 ELSE h2 \o h1))

join_hash_pairwise(h1, h2) ==
    IF Len(h1) = 0 THEN Returned(h2)
    ELSE IF Len(h2) = 0 THEN Returned(h1)
    ELSE LET c == compare_hash_values(h1, h2)
         IN  IF c.exc # "none" THEN Raised(c.exc)
             ELSE Returned(SHA256(IF c.value < 0 THEN h1 \o h2 ELSE h2 \o h1))

\* functools.reduce(join_hash_pairwise, internal_hashes, leaf_hash); an
\* exception raised by a step ends the reduction
RECURSIVE reduce_join(_, _, _)
reduce_join(internal_hashes, accumulator, i) ==
    IF i > Len(internal_hashes) THEN Returned(accumulator)
    ELSE LET step == join_hash_pairwise(accumulator, internal_hashes[i])
         IN  IF step.exc # "none" THEN step
             ELSE reduce_join(internal_hashes, step.value, i + 1)

Reversed(p) == [i \in 1..Len(p) |-> p[Len(p) + 1 - i]]

\* bytes ordering: a < b
RECURSIVE BytesLess(_, _, _)
BytesLess(a, b, i) ==
    IF i > Len(a) THEN i <= Len(b)
    ELSE IF i > Len(b) THEN FALSE
    ELSE IF a[i] # b[i] THEN a[i] < b[i]
    ELSE BytesLess(a, b, i + 1)

\* sorted(p)
RECURSIVE SortedHashes(_)
SortedHashes(p) ==
    IF Len(p) = 0 THEN <<>>
    ELSE LET m == CHOOSE k \in 1..Len(p) : \A l \in 1..Len(p) : ~BytesLess(p[l], p[k], 1)
         IN  <<p[m]>> \o SortedHashes(SubSeq(p, 1, m - 1) \o SubSeq(p, m + 1, Len(p)))

\* the fold over the proof taken from its last hash to its first
calculate_root_hash_reversed(internal_hashes, leaf_hash) ==
    reduce_join(Reversed(internal_hashes), leaf_hash, 1)

\* the fold over the proof put in sorted order first
calculate_root_hash_sorted(internal_hashes, leaf_hash) ==
    reduce_join(SortedHashes(internal_hashes), leaf_hash, 1)

calculate_root_hash_from_internal_hashes(internal_hashes, leaf_hash) ==
    reduce_join(internal_hashes, leaf_hash, 1)

\* parse_proof losing the last hash of the list
parse_proof_truncated(value_holder) ==
    SubSeq(value_holder.IonText, 1, Len(value_holder.IonText) - 1)

\* The Proof object is {'IonText': '[{{<hash>}},{{<hash>}}]'}: a record whose
\* IonText field holds the list of blobs; loads() yields the list.
parse_proof(value_holder) == value_holder.IonText

build_candidate_digest(prf, leaf_hash) ==
    calculate_root_hash_from_internal_hashes(parse_proof(prf), leaf_hash)

\* verify_document deciding by the sorting comparator:
\* compare_hash_values(digest, candidate_digest) == 0
verify_document_by_comparator(doc_hash, dig, prf) ==
    LET candidate_digest == build_candidate_digest(prf, doc_hash)
    IN  IF candidate_digest.exc # "none" THEN Raised(candidate_digest.exc)
        ELSE LET c == compare_hash_values(dig, candidate_digest.value)
             IN  IF c.exc # "none" THEN Raised(c.exc) ELSE Returned(c.value = 0)

\* verify_document comparing all but the last byte:
\* digest[:-1] == candidate_digest[:-1]
verify_document_truncated(doc_hash, dig, prf) ==
    LET candidate_digest == build_candidate_digest(prf, doc_hash)
    IN  IF candidate_digest.exc # "none" THEN Raised(candidate_digest.exc)
        ELSE Returned(SubSeq(dig, 1, Len(dig) - 1)
                        = SubSeq(candidate_digest.value, 1, Len(candidate_digest.value) - 1))

\* verify_document raising on a failed verification, as its callers do:
\* if digest != candidate_digest: raise AssertionError
verify_document_raising(doc_hash, dig, prf) ==
    LET candidate_digest == build_candidate_digest(prf, doc_hash)
    IN  IF candidate_digest.exc # "none" THEN Raised(candidate_digest.exc)
        ELSE IF dig = candidate_digest.value THEN Returned(TRUE)
        ELSE Raised("AssertionError")

verify_document(doc_hash, dig, prf) ==
    LET candidate_digest == build_candidate_digest(prf, doc_hash)
    IN  IF candidate_digest.exc # "none" THEN Raised(candidate_digest.exc)
        ELSE Returned(dig = candidate_digest.value)

---------------------------------------------------------------------------
\* qldb/journal_block.py, validate_qldb_hash_chain.py, journal_s3_export_reader.py

\* Python's None
None == [kind |-> "None"]

\* an exception with its message
RaisedWith(e, message) == [exc |-> e, value |-> message]

PreviousMismatch == "Previous block hash does not match!"

BlockHashMismatch == "Block hash doesn't match expected block hash. Verification failed."

\* the fields of a JournalBlock that the validation reads
JournalBlock(sequence_no, block_hash, entries_hash, previous_block_hash) ==
    [kind |-> "JournalBlock",
     block_address |-> [sequenceNo |-> sequence_no],
     block_hash |-> block_hash,
     entries_hash |-> entries_hash,
     previous_block_hash |-> previous_block_hash]

\* a Python list, where it is an element of another list
PyList(items) == [kind |-> "list", items |-> items]

\* compare_journal_blocks that also recomputes the hash of the first block
\* of the journal from that block's own hashes
run_compare_genesis(previous, journal_block) ==
    IF previous.kind = "None"
    THEN [outcome |-> Returned(journal_block), checks |-> <<>>]
    ELSE IF previous.kind # "JournalBlock" \/ journal_block.kind # "JournalBlock"
    THEN [outcome |-> Raised("AttributeError"), checks |-> <<>>]
    ELSE IF /\ previous.block_address.sequenceNo = 0
            /\ join_hash_pairwise(previous.entries_hash, previous.previous_block_hash)
                   # Returned(previous.block_hash)
    THEN [outcome |-> RaisedWith("RuntimeError", BlockHashMismatch), checks |-> <<"hash">>]
    ELSE IF previous.block_hash # journal_block.previous_block_hash
    THEN [outcome |-> RaisedWith("RuntimeError", PreviousMismatch), checks |-> <<"link">>]
    ELSE LET block_hash == join_hash_pairwise(journal_block.entries_hash,
                                              previous.block_hash)
         IN  [outcome |->
                 IF block_hash.exc # "none" THEN Raised(block_hash.exc)
                 ELSE IF block_hash.value # journal_block.block_hash
                 THEN RaisedWith("RuntimeError", BlockHashMismatch)
                 ELSE Returned(journal_block),
              checks |-> <<"link", "hash">>]

\* compare_journal_blocks without the recomputation of the block hash
run_compare_link_only(previous, journal_block) ==
    IF previous.kind = "None"
    THEN [outcome |-> Returned(journal_block), checks |-> <<>>]
    ELSE IF previous.kind # "JournalBlock" \/ journal_block.kind # "JournalBlock"
    THEN [outcome |-> Raised("AttributeError"), checks |-> <<>>]
    ELSE IF previous.block_hash # journal_block.previous_block_hash
    THEN [outcome |-> RaisedWith("RuntimeError", PreviousMismatch), checks |-> <<"link">>]
    ELSE [outcome |-> Returned(journal_block), checks |-> <<"link">>]

\* compare_journal_blocks recomputing the block hash before it looks at the
\* previous block hash
run_compare_hash_first(previous, journal_block) ==
    IF previous.kind = "None"
    THEN [outcome |-> Returned(journal_block), checks |-> <<>>]
    ELSE IF previous.kind # "JournalBlock" \/ journal_block.kind # "JournalBlock"
    THEN [outcome |-> Raised("AttributeError"), checks |-> <<>>]
    ELSE LET block_hash == join_hash_pairwise(journal_block.entries_hash,
                                              previous.block_hash)
         IN  IF block_hash.exc # "none"
             THEN [outcome |-> Raised(block_hash.exc), checks |-> <<"hash">>]
             ELSE IF block_hash.value # journal_block.block_hash
             THEN [outcome |-> RaisedWith("RuntimeError", BlockHashMismatch),
                   checks |-> <<"hash">>]
             ELSE IF previous.block_hash # journal_block.previous_block_hash
             THEN [outcome |-> RaisedWith("RuntimeError", PreviousMismatch),
                   checks |-> <<"hash", "link">>]
             ELSE [outcome |-> Returned(journal_block), checks |-> <<"hash", "link">>]

\* compare_journal_blocks checking with assert statements:
\* assert previous.block_hash == journal_block.previous_block_hash, '...'
run_compare_asserting(previous, journal_block) ==
    IF previous.kind = "None"
    THEN [outcome |-> Returned(journal_block), checks |-> <<>>]
    ELSE IF previous.kind # "JournalBlock" \/ journal_block.kind # "JournalBlock"
    THEN [outcome |-> Raised("AttributeError"), checks |-> <<>>]
    ELSE IF previous.block_hash # journal_block.previous_block_hash
    THEN [outcome |-> RaisedWith("AssertionError", PreviousMismatch), checks |-> <<"link">>]
    ELSE LET block_hash == join_hash_pairwise(journal_block.entries_hash,
                                              previous.block_hash)
         IN  [outcome |->
                 IF block_hash.exc # "none" THEN Raised(block_hash.exc)
                 ELSE IF block_hash.value # journal_block.block_hash
                 THEN RaisedWith("AssertionError", BlockHashMismatch)
                 ELSE Returned(journal_block),
              checks |-> <<"link", "hash">>]

\* compare_journal_blocks: its outcome, and the checks it made on the way
\* ("link": the previous block hash, "hash": the recomputed block hash).  An
\* operand that is not a JournalBlock has no block_hash attribute.
run_compare(previous, journal_block) ==
    IF previous.kind = "None"
    THEN [outcome |-> Returned(journal_block), checks |-> <<>>]
    ELSE IF previous.kind # "JournalBlock" \/ journal_block.kind # "JournalBlock"
    THEN [outcome |-> Raised("AttributeError"), checks |-> <<>>]
    ELSE IF previous.block_hash # journal_block.previous_block_hash
    THEN [outcome |-> RaisedWith("RuntimeError", PreviousMismatch), checks |-> <<"link">>]
    ELSE LET block_hash == join_hash_pairwise(journal_block.entries_hash,
                                              previous.block_hash)
         IN  [outcome |->
                 IF block_hash.exc # "none" THEN Raised(block_hash.exc)
                 ELSE IF block_hash.value # journal_block.block_hash
                 THEN RaisedWith("RuntimeError", BlockHashMismatch)
                 ELSE Returned(journal_block),
              checks |-> <<"link", "hash">>]

compare_journal_blocks(previous, journal_block) ==
    run_compare(previous, journal_block).outcome

\* verify without its test for the empty list: reduce() of an empty sequence
\* with no initial value raises TypeError
verify_entry_unguarded(blocks) ==
    IF Len(blocks) = 0 THEN [returns |-> TRUE, outcome |-> Raised("TypeError")]
    ELSE [returns |-> FALSE, outcome |-> Returned(blocks[1])]

\* verify, up to the call of reduce: an empty list returns at once
verify_entry(blocks) ==
    IF Len(blocks) = 0 THEN [returns |-> TRUE, outcome |-> Returned(None)]
    ELSE [returns |-> FALSE, outcome |-> Returned(blocks[1])]

\* compare_key_with_content_range: the file key names the sequence numbers of
\* the first and the last block of the file
compare_key_with_content_range(file) ==
    IF file.blocks[1].block_address.sequenceNo # file.start_sequence_no
    THEN RaisedWith("RuntimeError", "Expected first block SequenceNo")
    ELSE IF file.blocks[Len(file.blocks)].block_address.sequenceNo # file.last_sequence_no
    THEN RaisedWith("RuntimeError", "Expected last block SequenceNo")
    ELSE Returned(None)

\* the loop of read_export over the data file keys of the manifest:
\* journal_blocks.append(blocks)
RECURSIVE read_files(_, _, _)
read_files(files, i, blocks_so_far) ==
    IF i > Len(files) THEN Returned(blocks_so_far)
    ELSE LET range == compare_key_with_content_range(files[i])
         IN  IF range.exc # "none" THEN range
             ELSE read_files(files, i + 1, Append(blocks_so_far, PyList(files[i].blocks)))

read_export(s3) ==
    IF ~s3.started_manifest THEN RaisedWith("RuntimeError", "Initial manifest not found.")
    ELSE IF ~s3.completed_manifest
    THEN RaisedWith("RuntimeError", "Completed manifest not found.")
    ELSE read_files(s3.files, 1, <<>>)

\* A text is a sequence of characters.  '} {' separates the structs of an
\* S3 object.
Separator == <<"}", " ", "{">>

\* s3_object.split('} {') from position i on, the piece in hand starting at
\* start: the occurrences of the separator from left to right, not overlapping
RECURSIVE split(_, _, _)
split(text, start, i) ==
    IF i > Len(text) THEN <<SubSeq(text, start, Len(text))>>
    ELSE IF i + 2 <= Len(text) /\ SubSeq(text, i, i + 2) = Separator
    THEN <<SubSeq(text, start, i - 1)>> \o split(text, i + 3, i + 3)
    ELSE split(text, start, i + 1)

\* the depth of braces after each character of a text, from depth on
RECURSIVE Depths(_, _, _)
Depths(text, i, depth) ==
    IF i > Len(text) THEN <<>>
    ELSE LET d == IF text[i] = "{" THEN depth + 1
                  ELSE IF text[i] = "}" THEN depth - 1 ELSE depth
         IN  <<d>> \o Depths(text, i + 1, d)

\* loads(text) of a text that is one struct and nothing else: the struct
\* opens with the first character and closes with the last one
IsOneStruct(text) ==
    LET depths == Depths(text, 1, 0)
    IN  /\ Len(text) >= 2
        /\ text[1] = "{"
        /\ depths[Len(text)] = 0
        /\ \A i \in 1..(Len(text) - 1) : depths[i] > 0

\* from_ion(loads(text)): the block of the struct
Block(text) == [kind |-> "JournalBlock", ion |-> text]

\* the braces the loop puts back around piece i (0-based) of the split
restore(journals, i) ==
    IF i = 0 THEN journals[i + 1] \o <<"}">>
    ELSE IF i = Len(journals) - 1 THEN <<"{">> \o journals[i + 1]
    ELSE <<"{">> \o journals[i + 1] \o <<"}">>

\* the loop of get_journal_blocks from piece i on; load_error is what loads
\* raises for a text it cannot read (a ValueError becomes a RuntimeError)
RECURSIVE load_journals(_, _, _, _)
load_journals(journals, i, blocks, load_error) ==
    IF i >= Len(journals) THEN Returned(blocks)
    ELSE LET text == restore(journals, i)
         IN  IF ~IsOneStruct(text)
             THEN Raised(IF load_error = "ValueError" THEN "RuntimeError" ELSE load_error)
             ELSE load_journals(journals, i + 1, Append(blocks, Block(text)), load_error)

get_journal_blocks(text, load_error) ==
    load_journals(split(text, 1, 1), 0, <<>>, load_error)

---------------------------------------------------------------------------
\* occ_conflict_demo.py.  A transaction is the number of the
\* start_transaction call that made it; a call on a transaction ends "ok",
\* raises a ClientError that is an OCC conflict ("occ") or another ClientError
\* ("client_error"), or raises another exception ("error").
\* start_transaction, called in an except clause, returns the new transaction
\* ("ok") or raises ("error"), and what it raises leaves the function.

ClientErrors == {"occ", "client_error"}

\* the for loop of execute_transaction after the attempt of index i; the
\* loop with a raise once the attempts are used up follows first
after_execute_raising(outcome, i) ==
    IF outcome = "ok" THEN "break"
    ELSE IF outcome \notin ClientErrors THEN "raise"
    ELSE IF i + 1 < RETRY_LIMIT THEN "next"
    ELSE "raise"

after_execute(outcome, i) ==
    IF outcome = "ok" THEN "break"
    ELSE IF outcome \notin ClientErrors THEN "raise"
    ELSE IF i + 1 < RETRY_LIMIT THEN "next"
    ELSE "exhausted"

\* the except clause of commit_transaction that only goes round the loop
except_commit_retrying(outcome) ==
    IF outcome = "ok" THEN "break"
    ELSE IF outcome \notin ClientErrors THEN "raise"
    ELSE "next"

\* the try statement of commit_transaction: an OCC conflict starts a new
\* transaction and calls execute_transaction on it
except_commit(outcome) ==
    IF outcome = "ok" THEN "break"
    ELSE IF outcome \notin ClientErrors THEN "raise"
    ELSE IF outcome = "occ" THEN "restart"
    ELSE "next"

\* the demo is not running
NoOcc ==
    [pc |-> "idle", caller |-> "none", started |-> 0,
     main_transaction |-> 0, commit_transaction |-> 0, execute_transaction |-> 0,
     execute_i |-> 0, commit_i |-> 0,
     executes |-> 0, commits |-> 0, executed_on |-> 0, reexecuted_on |-> 0,
     last_execute |-> [transaction |-> 0, outcome |-> "none"],
     last_commit |-> [transaction |-> 0, outcome |-> "none", executed_on |-> 0],
     returned |-> [function |-> "none", after |-> "none"],
     raised_by |-> [function |-> "none", call |-> "none"]]

\* transaction1 = session1.start_transaction(): the main block is about to
\* call execute_transaction.  executes, commits, executed_on, reexecuted_on,
\* last_execute, last_commit, returned and raised_by record what has
\* happened.
OccStart ==
    [NoOcc EXCEPT !.pc = "main", !.started = 1, !.main_transaction = 1]

---------------------------------------------------------------------------
\* export_journal.py: wait_for_export_to_complete

\* the condition of the while loop; the loop that runs once more follows first
while_count_inclusive(count) == count <= MAX_RETRY_COUNT

while_count(count) == count < MAX_RETRY_COUNT

\* the wait is not running
NoWait ==
    [pc |-> "idle", count |-> 0, polls |-> 0, not_completed |-> 0,
     status |-> "none", outcome |-> NoCall]

\* what describe_journal_export returns
ExportDescription(status) == [Status |-> status]

\* verify as one computation: reduce(compare_journal_blocks, journal_blocks)
RECURSIVE reduce_compare(_, _, _)
reduce_compare(blocks, accumulator, i) ==
    IF i > Len(blocks) THEN Returned(accumulator)
    ELSE LET step == compare_journal_blocks(accumulator, blocks[i])
         IN  IF step.exc # "none" THEN step
             ELSE reduce_compare(blocks, step.value, i + 1)

verify(blocks) ==
    LET start == verify_entry(blocks)
    IN  IF start.returns THEN start.outcome
        ELSE LET reduction == reduce_compare(blocks, start.outcome.value, 2)
             IN  IF reduction.exc # "none" THEN reduction ELSE Returned(None)

---------------------------------------------------------------------------
\* The calls as the interpreter runs them in a thread: statement by
\* statement, on the frame of the call.

Threads == 1..NThreads

\* join_hash_pairwise up to new_hash_lib.update(concatenated): it has returned
\* or raised, or it has the bytes to hash
join_start(h1, h2) ==
    IF Len(h1) = 0 THEN [done |-> TRUE, outcome |-> Returned(h2)]
    ELSE IF Len(h2) = 0 THEN [done |-> TRUE, outcome |-> Returned(h1)]
    ELSE LET c == compare_hash_values(h1, h2)
         IN  IF c.exc # "none" THEN [done |-> TRUE, outcome |-> Raised(c.exc)]
             ELSE [done |-> FALSE,
                   concatenated |-> IF c.value < 0 THEN h1 \o h2 ELSE h2 \o h1]

\* new_hash_lib as a name of the module: every call binds the one name
new_hash_lib_global(t) == 1

\* new_hash_lib = sha256() binds a local name: the object belongs to the
\* frame of the call, that is to the thread that runs it
new_hash_lib_of(t) == t

NoArgs == [document_hash |-> <<>>, digest |-> <<>>, proof |-> [IonText |-> <<>>],
           journal_blocks |-> <<>>]

\* a thread that runs no call
IdleFrame ==
    [op |-> "none", status |-> "idle", args |-> NoArgs, called_with |-> NoArgs,
     internal_hashes |-> <<>>, i |-> 0, accumulator |-> <<>>,
     earlier |-> FALSE, interleaved |-> FALSE, result |-> NoCall]

\* the frame at the call: called_with, earlier and interleaved record the
\* history of the call (the arguments as passed, whether the thread made a
\* call before this one, whether another thread ran while it was hashing)
CallFrame(previous, op, a) ==
    [IdleFrame EXCEPT !.op = op, !.status = "reducing", !.args = a, !.called_with = a,
                      !.earlier = (previous.status = "returned")]

\* the list reduce iterates over: the local list parse_proof made, or the
\* caller's list of journal blocks itself
Iterated(frame) ==
    IF frame.op = "verify_document" THEN frame.internal_hashes
    ELSE frame.args.journal_blocks

\* a reduce that takes the next element with pop(0) from the list it iterates
advance_popping(frame, accumulator) ==
    IF frame.op = "verify_document"
    THEN [frame EXCEPT !.accumulator = accumulator, !.status = "reducing",
                       !.internal_hashes = Tail(@)]
    ELSE [frame EXCEPT !.accumulator = accumulator, !.status = "reducing",
                       !.args.journal_blocks = Tail(@)]

\* reduce stores the value of the call as its accumulator and moves on to the
\* next element of the list
advance(frame, accumulator) ==
    [frame EXCEPT !.accumulator = accumulator, !.status = "reducing", !.i = @ + 1]

\* the call returns or raises
returned(frame, outcome) == [frame EXCEPT !.status = "returned", !.result = outcome]

\* compare_journal_blocks once the block hash is recomputed
compare_block_hash(frame, block_hash) ==
    LET journal_block == Iterated(frame)[frame.i + 1]
    IN  IF block_hash # journal_block.block_hash
        THEN returned(frame, RaisedWith("RuntimeError", BlockHashMismatch))
        ELSE advance(frame, journal_block)

\* join_hash_pairwise has returned or raised into the function that called it
after_join(frame, outcome) ==
    IF outcome.exc # "none" THEN returned(frame, outcome)
    ELSE IF frame.op = "verify_document" THEN advance(frame, outcome.value)
    ELSE compare_block_hash(frame, outcome.value)

---------------------------------------------------------------------------
\* The values the calls are driven with.

\* a 32-byte hash that is zero except for byte v at (0-based) index idx
At(idx, v) == [i \in 1..HASH_LENGTH |-> IF i = idx + 1 THEN v ELSE 0]

\* a 32-byte hash with bytes v0, v16, v31 at indices 0, 16, 31
Sparse(v0, v16, v31) ==
    [i \in 1..HASH_LENGTH |->
        IF i = 1 THEN v0 ELSE IF i = 17 THEN v16 ELSE IF i = HASH_LENGTH THEN v31 ELSE 0]

\* the zero-length hash
EMPTY == <<>>

\* buffers that are neither empty nor HASH_LENGTH long
SHORT == <<1>>
LONG == [i \in 1..(HASH_LENGTH + 1) |-> IF i = 1 THEN 1 ELSE 0]

ByteSamples == {0, 127, 128, 255}

PairHashes ==
    {EMPTY, SHORT, LONG}
    \cup {Sparse(v0, v16, v31) : v0 \in ByteSamples, v16 \in ByteSamples, v31 \in ByteSamples}

LeafHashes == {EMPTY, SHORT, At(31, 127), At(31, 128), At(0, 1)}

ProofHashes == {EMPTY, SHORT, At(31, 127), At(31, 128), At(0, 1)}

Proofs ==
    {[IonText |-> p] : p \in UNION {[1..n -> ProofHashes] : n \in 0..MaxProofLen}}

\* the digest the ledger returns: the root of the proof, or another value
LedgerDigests(leaf, prf) ==
    LET root == calculate_root_hash_from_internal_hashes(prf.IonText, leaf)
    IN  (IF root.exc = "none" THEN {root.value} ELSE {}) \cup {EMPTY, At(31, 127)}

\* the byte positions flip_random_bit is driven with
FlipPositions == {0, HASH_LENGTH \div 2, HASH_LENGTH - 1}

NoProof == [IonText |-> <<>>]

\* journal blocks: a first block, and the blocks that may follow a block,
\* chained to it rightly or wrongly
BlockHashes == {At(31, 127), At(0, 1)}

EntriesHashes == {At(31, 128), At(16, 1)}

FirstBlocks ==
    {JournalBlock(0, b, e, EMPTY) : b \in BlockHashes, e \in EntriesHashes}

\* a previous block hash that is not that of the previous block
OtherThan(h) == IF h = At(1, 1) THEN At(1, 2) ELSE At(1, 1)

NextBlocks(previous) ==
    LET n == previous.block_address.sequenceNo + 1
        links == {previous.block_hash, OtherThan(previous.block_hash)}
    IN  {JournalBlock(n, join_hash_pairwise(e, previous.block_hash).value, e, p) :
            e \in EntriesHashes, p \in links}
        \cup {JournalBlock(n, join_hash_pairwise(At(31, 128), previous.block_hash).value,
                            At(16, 1), p) : p \in links}
        \cup {JournalBlock(n, At(1, 1), SHORT, p) : p \in links}

RECURSIVE BlockLists(_)
BlockLists(n) ==
    IF n = 0 THEN {<<>>}
    ELSE IF n = 1 THEN {<<b>> : b \in FirstBlocks}
    ELSE UNION {{Append(c, b) : b \in NextBlocks(c[Len(c)])} : c \in BlockLists(n - 1)}

AllBlockLists == UNION {BlockLists(n) : n \in 0..MaxBlocks}

\* a data file of an export: the blocks in it and the range its key names
DataFile(blocks, start, last) ==
    [blocks |-> blocks, start_sequence_no |-> start, last_sequence_no |-> last]

\* the exports of a list of blocks: in one data file or in two, with the
\* manifests written or not, with a file key that names the range or not
ExportsOf(c) ==
    LET n == Len(c)
        one == <<DataFile(c, 0, n - 1)>>
        two(k) == <<DataFile(SubSeq(c, 1, k), 0, k - 1), DataFile(SubSeq(c, k + 1, n), k, n - 1)>>
        layouts == {one} \cup {two(k) : k \in 1..(n - 1)}
    IN  {[started_manifest |-> TRUE, completed_manifest |-> TRUE, files |-> f] : f \in layouts}
        \cup {[started_manifest |-> FALSE, completed_manifest |-> TRUE, files |-> one],
              [started_manifest |-> TRUE, completed_manifest |-> FALSE, files |-> one],
              [started_manifest |-> TRUE, completed_manifest |-> TRUE,
               files |-> <<DataFile(c, 0, n)>>]}

\* the exported chains: those whose first block has the first hashes
Exports ==
    UNION {ExportsOf(c) : c \in {d \in AllBlockLists :
              /\ Len(d) >= 1
              /\ d[1] = JournalBlock(0, At(31, 127), At(31, 128), EMPTY)}}

\* the texts of journal block structs: empty, one field, two fields, a nested
\* struct
Structs ==
    {<<"{", "}">>, <<"{", "a", "}">>, <<"{", "a", " ", "b", "}">>,
     <<"{", "a", "{", "b", "}", "}">>}

StructLists == UNION {[1..n -> Structs] : n \in 1..MaxStructs}

\* what loads raises for a text that is not one Ion value
LoadErrors == {"ValueError", "IonException"}

\* the structs of an S3 object, one after the other, a space between two
RECURSIVE JoinStructs(_)
JoinStructs(structs) ==
    IF Len(structs) = 1 THEN structs[1]
    ELSE structs[1] \o <<" ">> \o JoinStructs(Tail(structs))

NoExport == [started_manifest |-> FALSE, completed_manifest |-> FALSE, files |-> <<>>]

---------------------------------------------------------------------------
\* State machine.

\* the arguments of verify_document on the ledger's data
LedgerArgs == [document_hash |-> document_hash, digest |-> digest, proof |-> proof]

PairInit ==
    /\ entry = "hash_pair"
    /\ hash1 \in PairHashes
    /\ hash2 \in PairHashes
    /\ document_hash = EMPTY
    /\ digest = EMPTY
    /\ proof = NoProof

LedgerInit ==
    /\ entry = "verify"
    /\ hash1 = EMPTY
    /\ hash2 = EMPTY
    /\ document_hash \in LeafHashes
    /\ proof \in Proofs
    /\ digest \in LedgerDigests(document_hash, proof)

\* no ledger data: the chain validation takes none
NoLedger ==
    /\ hash1 = EMPTY
    /\ hash2 = EMPTY
    /\ document_hash = EMPTY
    /\ digest = EMPTY
    /\ proof = NoProof

\* no thread runs a call
NoThreads ==
    /\ threads = [t \in Threads |-> IdleFrame]
    /\ new_hash_lib = [t \in Threads |-> <<>>]

\* no S3 object text: get_journal_blocks is not called
NoS3Object ==
    s3_object = [structs |-> <<>>, text |-> <<>>]

\* no journal export: the verifier's callers read none
NoChain ==
    /\ export = NoExport
    /\ journal_blocks = <<>>

\* verify(journal_blocks) called on a list of blocks
ChainInit ==
    /\ entry = "chain"
    /\ export = NoExport
    /\ journal_blocks \in AllBlockLists

\* validate_qldb_hash_chain's main block: read_export, then verify
ExportInit ==
    /\ entry = "export"
    /\ export \in Exports
    /\ journal_blocks = <<>>

\* the text of an S3 data file: structs separated by single spaces
S3ObjectInit ==
    /\ entry = "s3_object"
    /\ \E structs \in StructLists :
          s3_object = [structs |-> structs, text |-> JoinStructs(structs)]

\* the OCC demo and the export wait are not running
NoDemo ==
    /\ occ = NoOcc
    /\ wait = NoWait

Init ==
    /\ \/ PairInit /\ NoChain /\ NoS3Object
       \/ LedgerInit /\ NoChain /\ NoS3Object
       \/ ChainInit /\ NoLedger /\ NoS3Object
       \/ ExportInit /\ NoLedger /\ NoS3Object
       \/ S3ObjectInit /\ NoLedger /\ NoChain
    /\ NoDemo
    /\ pc = "start"
    /\ altered = "none"
    /\ args = LedgerArgs
    /\ ret = NoCall
    /\ reduced = 0
    /\ previous_journal_block = None
    /\ examined = <<>>
    /\ NoThreads

\* a direct call of compare_hash_values(hash1, hash2)
CallCompare ==
    /\ entry = "hash_pair"
    /\ pc' = "compared"
    /\ ret' = compare_hash_values(hash1, hash2)
    /\ UNCHANGED <<entry, hash1, hash2, document_hash, digest, proof, altered, args>>
    /\ UNCHANGED thread_vars
    /\ UNCHANGED <<s3_object, demo_vars>>
    /\ UNCHANGED chain_vars

\* a direct call of join_hash_pairwise(hash1, hash2)
CallJoin ==
    /\ entry = "hash_pair"
    /\ pc' = "joined"
    /\ ret' = join_hash_pairwise(hash1, hash2)
    /\ UNCHANGED <<entry, hash1, hash2, document_hash, digest, proof, altered, args>>
    /\ UNCHANGED thread_vars
    /\ UNCHANGED <<s3_object, demo_vars>>
    /\ UNCHANGED chain_vars

\* build_candidate_digest(proof, document_hash) on the ledger's data
CallFold ==
    /\ entry = "verify"
    /\ pc = "start"
    /\ pc' = "folded"
    /\ ret' = build_candidate_digest(proof, document_hash)
    /\ UNCHANGED <<entry, hash1, hash2, document_hash, digest, proof, altered, args>>
    /\ UNCHANGED thread_vars
    /\ UNCHANGED <<s3_object, demo_vars>>
    /\ UNCHANGED chain_vars

\* verified = verify_document(...): the first call on the ledger's data, a
\* later call on the data with one hash altered
Verify ==
    /\ entry = "verify"
    /\ pc \in {"start", "flipped"}
    /\ pc' = IF pc = "start" THEN "verified" ELSE "reverified"
    /\ ret' = verify_document(args.document_hash, args.digest, args.proof)
    /\ UNCHANGED <<entry, hash1, hash2, document_hash, digest, proof, altered, args>>
    /\ UNCHANGED thread_vars
    /\ UNCHANGED <<s3_object, demo_vars>>
    /\ UNCHANGED chain_vars

\* the callers alter a hash only after the ledger's data verified; a failed
\* verification raises AssertionError('... is not verified') and ends them
FirstVerified ==
    /\ entry = "verify"
    /\ pc = "verified"
    /\ ret = Returned(TRUE)

\* verify_block alters the block hash after the altered digest failed to
\* verify; a True there raises AssertionError and ends it
DigestRejected ==
    /\ entry = "verify"
    /\ pc = "reverified"
    /\ altered = "digest"
    /\ ret = Returned(FALSE)

\* the outcomes of flip_random_bit(original) over the draws of randrange
FlipOutcomes(original) ==
    IF Len(original) = 0 THEN {flip_random_bit(original, 0, 0)}
    ELSE {flip_random_bit(original, altered_position, bit_shift) :
            altered_position \in FlipPositions \cap (0..(Len(original) - 1)),
            bit_shift \in 0..(UPPER_BOUND - 1)}

\* the caller after flip_random_bit: an AssertionError ends it, an altered
\* hash replaces the original in the arguments of the next verify_document
AfterFlip(target, flipped, new_args) ==
    /\ altered' = target
    /\ ret' = flipped
    /\ IF flipped.exc # "none"
       THEN pc' = "flip_failed" /\ UNCHANGED args
       ELSE pc' = "flipped" /\ args' = new_args
    /\ UNCHANGED <<entry, hash1, hash2, document_hash, digest, proof>>
    /\ UNCHANGED chain_vars
    /\ UNCHANGED thread_vars
    /\ UNCHANGED <<s3_object, demo_vars>>

\* altered_digest = flip_random_bit(digest_bytes)
FlipDigest ==
    /\ FirstVerified
    /\ \E flipped \in FlipOutcomes(digest) :
          AfterFlip("digest", flipped, [LedgerArgs EXCEPT !.digest = flipped.value])

\* altered_block_hash = flip_random_bit(block_hash)
FlipDocumentHash ==
    /\ FirstVerified \/ DigestRejected
    /\ \E flipped \in FlipOutcomes(document_hash) :
          AfterFlip("document_hash", flipped,
                    [LedgerArgs EXCEPT !.document_hash = flipped.value])

\* flip_random_bit on one hash of the proof list
FlipProofHash ==
    /\ FirstVerified
    /\ \E k \in 1..Len(proof.IonText) :
          \E flipped \in FlipOutcomes(proof.IonText[k]) :
              AfterFlip("proof", flipped,
                        [LedgerArgs EXCEPT !.proof.IonText[k] = flipped.value])

\* journal_blocks = read_export(journal_export, s3_client); an exception is
\* logged by the main block, which then ends
ReadExport ==
    /\ entry = "export"
    /\ pc = "start"
    /\ LET result == read_export(export)
       IN  /\ ret' = result
           /\ IF result.exc # "none"
              THEN pc' = "export_failed" /\ UNCHANGED journal_blocks
              ELSE pc' = "exported" /\ journal_blocks' = result.value
    /\ UNCHANGED <<entry, hash1, hash2, document_hash, digest, proof, altered, args>>
    /\ UNCHANGED thread_vars
    /\ UNCHANGED <<s3_object, demo_vars>>
    /\ UNCHANGED <<export, reduced, previous_journal_block, examined>>

\* verify(journal_blocks) is called: it returns for the empty list, and
\* reduce takes the first element as its accumulator otherwise
StartVerify ==
    /\ \/ entry = "chain" /\ pc = "start"
       \/ entry = "export" /\ pc = "exported"
    /\ LET start == verify_entry(journal_blocks)
       IN  IF start.returns
           THEN /\ pc' = "chain_done"
                /\ ret' = start.outcome
                /\ UNCHANGED <<reduced, previous_journal_block>>
           ELSE /\ pc' = "reducing"
                /\ ret' = NoCall
                /\ reduced' = 1
                /\ previous_journal_block' = start.outcome.value
    /\ UNCHANGED <<entry, hash1, hash2, document_hash, digest, proof, altered, args>>
    /\ UNCHANGED thread_vars
    /\ UNCHANGED <<s3_object, demo_vars>>
    /\ UNCHANGED <<export, journal_blocks, examined>>

\* one step of reduce: compare_journal_blocks(accumulator, next element); an
\* exception ends reduce and verify
CompareNext ==
    /\ pc = "reducing"
    /\ reduced < Len(journal_blocks)
    /\ LET journal_block == journal_blocks[reduced + 1]
           step == run_compare(previous_journal_block, journal_block)
       IN  /\ examined' = examined \o [k \in 1..Len(step.checks) |-> <<reduced, step.checks[k]>>]
           /\ reduced' = reduced + 1
           /\ IF step.outcome.exc # "none"
              THEN /\ pc' = "chain_done"
                   /\ ret' = step.outcome
                   /\ UNCHANGED previous_journal_block
              ELSE /\ pc' = "reducing"
                   /\ ret' = NoCall
                   /\ previous_journal_block' = step.outcome.value
    /\ UNCHANGED <<entry, hash1, hash2, document_hash, digest, proof, altered, args>>
    /\ UNCHANGED thread_vars
    /\ UNCHANGED <<s3_object, demo_vars>>
    /\ UNCHANGED <<export, journal_blocks>>

\* reduce has taken every element: verify returns None
ReturnVerify ==
    /\ pc = "reducing"
    /\ reduced = Len(journal_blocks)
    /\ pc' = "chain_done"
    /\ ret' = Returned(None)
    /\ UNCHANGED <<entry, hash1, hash2, document_hash, digest, proof, altered, args>>
    /\ UNCHANGED thread_vars
    /\ UNCHANGED <<s3_object, demo_vars>>
    /\ UNCHANGED <<export, journal_blocks, reduced, previous_journal_block, examined>>

\* blocks = get_journal_blocks(s3_object)
GetJournalBlocks ==
    /\ entry = "s3_object"
    /\ pc = "start"
    /\ pc' = "parsed"
    /\ \E load_error \in LoadErrors : ret' = get_journal_blocks(s3_object.text, load_error)
    /\ UNCHANGED <<entry, hash1, hash2, document_hash, digest, proof, altered, args>>
    /\ UNCHANGED <<chain_vars, thread_vars, s3_object, demo_vars>>

Next ==
    \/ CallCompare
    \/ CallJoin
    \/ CallFold
    \/ Verify
    \/ FlipDigest
    \/ FlipDocumentHash
    \/ FlipProofHash
    \/ ReadExport
    \/ StartVerify
    \/ CompareNext
    \/ ReturnVerify
    \/ GetJournalBlocks

Spec == Init /\ [][Next]_vars

---------------------------------------------------------------------------
\* Properties of verifier.py.

IsHash(h) == Len(h) = HASH_LENGTH

\* neither the zero-length hash nor a hash of HASH_LENGTH bytes
Malformed(h) == Len(h) # 0 /\ Len(h) # HASH_LENGTH

BytesEqual(a, b) == Len(a) = Len(b) /\ \A i \in 1..Len(a) : a[i] = b[i]

\* the two's-complement reading of a byte
TwosComplement(b) == ((b + 128) % 256) - 128

\* the (0-based) indices at which two hashes of equal length differ
DifferAt(a, b) == {i \in 0..(Len(a) - 1) : a[i + 1] # b[i + 1]}

Highest(S) == CHOOSE i \in S : \A j \in S : j <= i

\* combine(...combine(combine(leaf, p1), p2)..., pn), from the outermost
\* combine inwards
RECURSIVE LeftFold(_, _)
LeftFold(leaf, p) ==
    IF Len(p) = 0 THEN Returned(leaf)
    ELSE LET inner == LeftFold(leaf, SubSeq(p, 1, Len(p) - 1))
         IN  IF inner.exc # "none" THEN inner
             ELSE join_hash_pairwise(inner.value, p[Len(p)])

\* p with its elements i and j swapped
Swapped(p, i, j) == [p EXCEPT ![i] = p[j], ![j] = p[i]]

VerifyCalled == entry = "verify" /\ pc \in {"verified", "reverified"}

\* C1: verify_document returns True exactly when the root folded from the
\* leaf and the proof equals the digest byte for byte, False on any mismatch;
\* the digest is compared by equality, whatever its length, and the signed
\* comparator (which rejects a digest that is not 32 bytes) is not used.
C1_VerifyIsByteEquality ==
    VerifyCalled =>
        LET candidate == calculate_root_hash_from_internal_hashes(
                             args.proof.IonText, args.document_hash)
        IN  candidate.exc = "none" =>
                ret = Returned(BytesEqual(args.digest, candidate.value))

C1_Witness ==
    /\ VerifyCalled
    /\ ret = Returned(FALSE)
    /\ IsHash(args.document_hash)
    /\ Len(args.proof.IonText) = 2
    /\ IsHash(args.proof.IonText[1])
    /\ IsHash(args.proof.IonText[2])
    /\ args.digest = EMPTY

\* C2: a digest built by folding the proof from the leaf verifies against the
\* same leaf and proof.
C2_RoundTrip ==
    (entry = "verify" /\ pc = "verified") =>
        LET built == calculate_root_hash_from_internal_hashes(proof.IonText, document_hash)
        IN  (built.exc = "none" /\ digest = built.value) => ret = Returned(TRUE)

C2_Witness ==
    /\ entry = "verify"
    /\ pc = "verified"
    /\ ret = Returned(TRUE)
    /\ IsHash(document_hash)
    /\ Len(proof.IonText) = 2
    /\ IsHash(proof.IonText[1])
    /\ IsHash(proof.IonText[2])
    /\ proof.IonText[1] # proof.IonText[2]

\* C3: once the ledger's leaf, digest and proof verified, the same call with a
\* single bit flipped in the leaf, in the digest or in one proof hash returns
\* False.
C3_TamperDetected ==
    (entry = "verify" /\ pc = "reverified"
        /\ verify_document(document_hash, digest, proof) = Returned(TRUE))
    => /\ altered \in {"digest", "document_hash", "proof"}
       /\ ret = Returned(FALSE)

C3_Witness ==
    /\ entry = "verify"
    /\ pc = "reverified"
    /\ altered = "proof"
    /\ Len(proof.IonText) = 2
    /\ args.proof.IonText[2] # proof.IonText[2]
    /\ ret = Returned(FALSE)

\* C4: join_hash_pairwise(a, b) = join_hash_pairwise(b, a) for 32-byte a and b,
\* a = b included.
C4_JoinCommutative ==
    (entry = "hash_pair" /\ pc = "joined" /\ IsHash(hash1) /\ IsHash(hash2)) =>
        /\ ret.exc = "none"
        /\ ret = join_hash_pairwise(hash2, hash1)

C4_Witness ==
    /\ entry = "hash_pair"
    /\ pc = "joined"
    /\ IsHash(hash1)
    /\ IsHash(hash2)
    /\ hash1 # hash2
    /\ ret = Returned(SHA256(hash2 \o hash1))

\* C5: the zero-length hash is the identity of join_hash_pairwise: joined with
\* it, the other argument is returned as it is, not hashed.
C5_EmptyIsIdentity ==
    (entry = "hash_pair" /\ pc = "joined") =>
        /\ hash1 = EMPTY => ret = Returned(hash2)
        /\ hash2 = EMPTY => ret = Returned(hash1)

C5_Witness ==
    /\ entry = "hash_pair"
    /\ pc = "joined"
    /\ IsHash(hash1)
    /\ hash1[HASH_LENGTH] = 128
    /\ hash2 = EMPTY
    /\ ret = Returned(hash1)

\* C6: on two 32-byte hashes compare_hash_values returns the difference of
\* the bytes, read as two's-complement values in -128..127, at the highest
\* index where the hashes differ, and 0 when they are equal.
C6_SignedCompareFromTheEnd ==
    (entry = "hash_pair" /\ pc = "compared" /\ IsHash(hash1) /\ IsHash(hash2)) =>
        LET differ == DifferAt(hash1, hash2)
        IN  ret = Returned(
                IF differ = {} THEN 0
                ELSE TwosComplement(hash1[Highest(differ) + 1])
                        - TwosComplement(hash2[Highest(differ) + 1]))

\* 0x80 at the deciding index sorts before 0x7F, whatever the lower bytes are
C6_Witness ==
    /\ entry = "hash_pair"
    /\ pc = "compared"
    /\ IsHash(hash1)
    /\ IsHash(hash2)
    /\ hash1[HASH_LENGTH] = 128
    /\ hash2[HASH_LENGTH] = 127
    /\ hash1[1] = 127
    /\ hash2[1] = 0
    /\ ret = Returned(-255)

\* C7: for 32-byte a and b, join_hash_pairwise(a, b) is the SHA-256 of a || b
\* when compare_hash_values(a, b) < 0 and of b || a otherwise, and is 32 bytes
\* long.
C7_JoinHashesSortedPair ==
    (entry = "hash_pair" /\ pc = "joined" /\ IsHash(hash1) /\ IsHash(hash2)) =>
        /\ ret.exc = "none"
        /\ Len(ret.value) = HASH_LENGTH
        /\ ret.value = IF compare_hash_values(hash1, hash2).value < 0
                       THEN SHA256(hash1 \o hash2)
                       ELSE SHA256(hash2 \o hash1)

C7_Witness ==
    /\ entry = "hash_pair"
    /\ pc = "joined"
    /\ IsHash(hash1)
    /\ IsHash(hash2)
    /\ hash1[HASH_LENGTH] = 255
    /\ hash2[HASH_LENGTH] = 0
    /\ ret = Returned(SHA256(hash1 \o hash2))

\* C8: calculate_root_hash_from_internal_hashes is the left fold of
\* join_hash_pairwise over the proof, in the proof's order, from the leaf; the
\* empty proof gives the leaf back.
C8_FoldIsLeftFold ==
    (entry = "verify" /\ pc = "folded") =>
        /\ ret = LeftFold(document_hash, proof.IonText)
        /\ Len(proof.IonText) = 0 => ret = Returned(document_hash)

C8_Witness ==
    /\ entry = "verify"
    /\ pc = "folded"
    /\ IsHash(document_hash)
    /\ Len(proof.IonText) = 2
    /\ IsHash(proof.IonText[1])
    /\ IsHash(proof.IonText[2])
    /\ proof.IonText[1] # proof.IonText[2]
    /\ ret.exc = "none"

\* the roots and verdicts of a proof with two distinct non-empty hashes
\* swapped differ from those of the proof as given
OrderMatters ==
    \A i \in 1..Len(proof.IonText) : \A j \in (i + 1)..Len(proof.IonText) :
        LET p == proof.IonText
            reordered == [IonText |-> Swapped(p, i, j)]
        IN  (Len(p[i]) # 0 /\ Len(p[j]) # 0 /\ p[i] # p[j]) =>
                /\ (pc = "folded" /\ ret.exc = "none") =>
                       build_candidate_digest(reordered, document_hash) # ret
                /\ (pc = "verified" /\ ret = Returned(TRUE)) =>
                       verify_document(document_hash, digest, reordered) = Returned(FALSE)

\* C9: as claimed, for any leaf: swapping two distinct non-empty hashes of
\* the proof changes the root, and a digest that verified no longer verifies.
C9_OrderMattersAnyLeaf ==
    entry = "verify" => OrderMatters

\* C9, amended: the same for a non-empty leaf.
C9_OrderMattersNonEmptyLeaf ==
    (entry = "verify" /\ Len(document_hash) # 0) => OrderMatters

C9_Witness ==
    /\ entry = "verify"
    /\ pc = "verified"
    /\ ret = Returned(TRUE)
    /\ IsHash(document_hash)
    /\ Len(proof.IonText) = 2
    /\ IsHash(proof.IonText[1])
    /\ IsHash(proof.IonText[2])
    /\ proof.IonText[1] = At(0, 1)
    /\ proof.IonText[2] = At(31, 128)

\* C10: join_hash_pairwise raises whenever an argument is non-empty and not
\* 32 bytes long, whatever the other argument is.
C10_MalformedAlwaysRaises ==
    (entry = "hash_pair" /\ pc = "joined" /\ (Malformed(hash1) \/ Malformed(hash2))) =>
        ret.exc = "AssertionError"

\* the hashes handed to verify_document: the leaf, the digest, the proof's
AllHashesOf(a) ==
    {a.document_hash, a.digest} \cup {a.proof.IonText[k] : k \in 1..Len(a.proof.IonText)}

\* C11: verify_document surfaces a leaf, digest or proof hash that is
\* non-empty and not 32 bytes long as an error; it returns neither True nor
\* False for it.
C11_MalformedInputRaises ==
    (VerifyCalled /\ \E h \in AllHashesOf(args) : Malformed(h)) =>
        ret.exc = "AssertionError"

\* C12: on a 32-byte leaf, a 32-byte digest and a proof of 32-byte or
\* zero-length hashes verify_document does not raise; it returns True or
\* False.
C12_WellFormedNeverRaises ==
    (VerifyCalled /\ IsHash(args.document_hash) /\ IsHash(args.digest)
        /\ \A k \in 1..Len(args.proof.IonText) :
              IsHash(args.proof.IonText[k]) \/ args.proof.IonText[k] = EMPTY)
    => /\ ret.exc = "none"
       /\ ret.value \in BOOLEAN

C12_Witness ==
    /\ VerifyCalled
    /\ altered = "none"
    /\ IsHash(args.document_hash)
    /\ IsHash(args.digest)
    /\ Len(args.proof.IonText) = 2
    /\ args.proof.IonText[1] = EMPTY
    /\ IsHash(args.proof.IonText[2])
    /\ ret = Returned(FALSE)

---------------------------------------------------------------------------
\* Several threads, each calling verify_document or verify again and again,
\* their statements interleaved in any order.

\* the arguments the threads call verify_document with
ThreadLedgerArgs ==
    {[NoArgs EXCEPT !.document_hash = At(0, 1), !.digest = d,
                    !.proof = [IonText |-> <<At(31, 128)>>]] :
        d \in {join_hash_pairwise(At(0, 1), At(31, 128)).value, At(31, 127)}}

\* the lists of journal blocks the threads call verify with
ThreadChains ==
    {c \in BlockLists(2) :
        /\ c[1] = JournalBlock(0, At(31, 127), At(31, 128), EMPTY)
        /\ c[2].entries_hash = At(31, 128)
        /\ c[2].block_hash = join_hash_pairwise(At(31, 128), At(31, 127)).value}

ThreadsInit ==
    /\ entry = "threads"
    /\ NoLedger
    /\ NoChain
    /\ pc = "start"
    /\ altered = "none"
    /\ args = LedgerArgs
    /\ ret = NoCall
    /\ reduced = 0
    /\ previous_journal_block = None
    /\ examined = <<>>
    /\ NoThreads
    /\ NoS3Object
    /\ NoDemo

\* thread t takes a step of its call; a call of another thread that is
\* between update() and digest() has now been interleaved with it
ThreadStep(t, frame) ==
    /\ entry = "threads"
    /\ threads' = [u \in Threads |->
                      IF u = t THEN frame
                      ELSE IF threads[u].status = "hashing"
                      THEN [threads[u] EXCEPT !.interleaved = TRUE]
                      ELSE threads[u]]
    /\ UNCHANGED <<entry, pc, hash1, hash2, document_hash, digest, proof, altered, args, ret>>
    /\ UNCHANGED chain_vars
    /\ UNCHANGED <<s3_object, demo_vars>>

\* verify_document(document_hash, digest, proof) is called:
\* parse_proof makes the list and reduce starts from the document hash
ThreadCallVerifyDocument ==
    \E t \in Threads : \E a \in ThreadLedgerArgs :
        /\ threads[t].status \in {"idle", "returned"}
        /\ ThreadStep(t, [CallFrame(threads[t], "verify_document", a) EXCEPT
                               !.internal_hashes = parse_proof(a.proof),
                             !.accumulator = a.document_hash])
        /\ UNCHANGED new_hash_lib

\* verify(journal_blocks) is called: it returns for the empty list, and
\* reduce starts from the first block otherwise
ThreadCallVerify ==
    \E t \in Threads : \E blocks \in ThreadChains :
        /\ threads[t].status \in {"idle", "returned"}
        /\ LET frame == CallFrame(threads[t], "verify",
                                  [NoArgs EXCEPT !.journal_blocks = blocks])
               start == verify_entry(blocks)
           IN  ThreadStep(t, IF start.returns THEN returned(frame, start.outcome)
                             ELSE [frame EXCEPT !.accumulator = start.outcome.value,
                                                !.i = 1])
        /\ UNCHANGED new_hash_lib

\* reduce calls the function on the next element, which runs up to
\* new_hash_lib.update(concatenated) unless it returns or raises before
ThreadReduce ==
    \E t \in Threads :
        LET frame == threads[t]
            next == Iterated(frame)[frame.i + 1]
            mismatch == /\ frame.op = "verify"
                        /\ frame.accumulator.block_hash # next.previous_block_hash
            join == IF frame.op = "verify_document"
                    THEN join_start(frame.accumulator, next)
                    ELSE join_start(next.entries_hash, frame.accumulator.block_hash)
        IN  /\ frame.status = "reducing"
            /\ frame.i < Len(Iterated(frame))
            /\ IF mismatch
               THEN /\ ThreadStep(t, returned(frame, RaisedWith("RuntimeError",
                                                                PreviousMismatch)))
                    /\ UNCHANGED new_hash_lib
               ELSE IF join.done
               THEN /\ ThreadStep(t, after_join(frame, join.outcome))
                    /\ UNCHANGED new_hash_lib
               ELSE /\ ThreadStep(t, [frame EXCEPT !.status = "hashing"])
                    /\ new_hash_lib' = [new_hash_lib EXCEPT
                                           ![new_hash_lib_of(t)] = join.concatenated]

\* return new_hash_lib.digest(): the name goes out of scope
ThreadDigest ==
    \E t \in Threads :
        /\ threads[t].status = "hashing"
        /\ ThreadStep(t, after_join(threads[t],
                                    Returned(SHA256(new_hash_lib[new_hash_lib_of(t)]))))
        /\ new_hash_lib' = [new_hash_lib EXCEPT ![new_hash_lib_of(t)] = <<>>]

\* reduce has taken every element: verify_document returns
\* digest == candidate_digest, verify returns None
ThreadReturn ==
    \E t \in Threads :
        LET frame == threads[t]
        IN  /\ frame.status = "reducing"
            /\ frame.i >= Len(Iterated(frame))
            /\ ThreadStep(t, returned(frame,
                                IF frame.op = "verify_document"
                                THEN Returned(frame.args.digest = frame.accumulator)
                                ELSE Returned(None)))
            /\ UNCHANGED new_hash_lib

ThreadsNext ==
    \/ ThreadCallVerifyDocument
    \/ ThreadCallVerify
    \/ ThreadReduce
    \/ ThreadDigest
    \/ ThreadReturn

SpecThreads == ThreadsInit /\ [][ThreadsNext]_vars

---------------------------------------------------------------------------
\* The demo of occ_conflict_demo.py on one session: the main block calls
\* execute_transaction and then commit_transaction with its transaction1.

\* nothing of the verification samples is running
NoMain ==
    /\ NoLedger
    /\ NoChain
    /\ pc = "start"
    /\ altered = "none"
    /\ args = LedgerArgs
    /\ ret = NoCall
    /\ reduced = 0
    /\ previous_journal_block = None
    /\ examined = <<>>
    /\ NoThreads
    /\ NoS3Object

main_vars ==
    <<entry, pc, hash1, hash2, document_hash, digest, proof, altered, args,
      ret, chain_vars, thread_vars, s3_object>>

Outcomes == {"ok", "occ", "client_error", "error"}
StartOutcomes == {"ok", "error"}

\* an exception of call leaves function, which called it
raise_from(o, function, call) ==
    [o EXCEPT !.pc = "raised",
              !.raised_by = [function |-> function, call |-> call]]

\* execute_transaction(qldb_session, transaction, ...) is entered by caller
call_execute(o, caller, transaction) ==
    [o EXCEPT !.pc = "execute", !.caller = caller,
              !.execute_transaction = transaction,
              !.execute_i = 0, !.executes = 0,
              !.last_execute = [transaction |-> 0, outcome |-> "none"]]

\* the for loop of commit_transaction goes to its next index, or ends
next_commit(o) ==
    IF o.commit_i + 1 < RETRY_LIMIT
    THEN [o EXCEPT !.pc = "commit", !.commit_i = @ + 1]
    ELSE [o EXCEPT !.pc = "commit_returning", !.commit_i = @ + 1,
                   !.returned = [function |-> "commit_transaction",
                                 after |-> "exhausted"]]

OccInit ==
    /\ entry = "occ"
    /\ NoMain
    /\ occ = OccStart
    /\ wait = NoWait

\* execute_transaction(session1, transaction1, query1, parameters)
OccCallExecute ==
    /\ entry = "occ"
    /\ occ.pc = "main"
    /\ occ' = call_execute(occ, "main", occ.main_transaction)
    /\ UNCHANGED <<main_vars, wait>>

\* one round of the loop of execute_transaction
OccExecute ==
    /\ entry = "occ"
    /\ occ.pc = "execute"
    /\ \E outcome \in Outcomes, start \in StartOutcomes :
          LET transaction == occ.execute_transaction
              attempted ==
                  [occ EXCEPT
                      !.executes = @ + 1,
                      !.last_execute = [transaction |-> transaction,
                                        outcome |-> outcome],
                      !.executed_on = IF outcome = "ok" THEN transaction ELSE @,
                      !.reexecuted_on =
                          IF occ.caller = "commit" /\ occ.executes = 0
                          THEN transaction ELSE @]
              handled ==
                  IF outcome = "occ"
                  THEN [attempted EXCEPT !.started = @ + 1,
                                         !.execute_transaction = occ.started + 1]
                  ELSE attempted
              control == after_execute(outcome, occ.execute_i)
          IN  occ' =
                  CASE outcome = "occ" /\ start = "error" ->
                         raise_from(attempted, "execute_transaction",
                                    "start_transaction")
                    [] control = "break" ->
                         [handled EXCEPT
                             !.pc = "execute_returning",
                             !.returned = [function |-> "execute_transaction",
                                           after |-> "break"]]
                    [] control = "exhausted" ->
                         [handled EXCEPT
                             !.pc = "execute_returning",
                             !.execute_i = @ + 1,
                             !.returned = [function |-> "execute_transaction",
                                           after |-> "exhausted"]]
                    [] control = "next" ->
                         [handled EXCEPT !.execute_i = @ + 1]
                    [] OTHER -> raise_from(handled, "execute_transaction",
                                           "execute_statement")
    /\ UNCHANGED <<main_vars, wait>>

\* execute_transaction returns None to the main block or to
\* commit_transaction, which goes on
OccExecuteReturn ==
    /\ entry = "occ"
    /\ occ.pc = "execute_returning"
    /\ occ' = IF occ.caller = "main"
              THEN [occ EXCEPT !.pc = "main_commit"]
              ELSE next_commit(occ)
    /\ UNCHANGED <<main_vars, wait>>

\* commit_transaction(session1, transaction1, query1, parameters)
OccCallCommit ==
    /\ entry = "occ"
    /\ occ.pc = "main_commit"
    /\ occ' = [occ EXCEPT !.pc = "commit",
                          !.commit_transaction = occ.main_transaction,
                          !.commit_i = 0, !.commits = 0]
    /\ UNCHANGED <<main_vars, wait>>

\* one round of the loop of commit_transaction, as far as the call of
\* execute_transaction
OccCommit ==
    /\ entry = "occ"
    /\ occ.pc = "commit"
    /\ \E outcome \in Outcomes, start \in StartOutcomes :
          LET transaction == occ.commit_transaction
              attempted ==
                  [occ EXCEPT
                      !.commits = @ + 1,
                      !.last_commit = [transaction |-> transaction,
                                       outcome |-> outcome,
                                       executed_on |-> occ.executed_on]]
              control == except_commit(outcome)
          IN  occ' =
                  CASE control = "restart" /\ start = "error" ->
                         raise_from(attempted, "commit_transaction",
                                    "start_transaction")
                    [] control = "break" ->
                         [attempted EXCEPT
                             !.pc = "commit_returning",
                             !.returned = [function |-> "commit_transaction",
                                           after |-> "break"]]
                    [] control = "restart" ->
                         call_execute(
                             [attempted EXCEPT
                                 !.started = @ + 1,
                                 !.commit_transaction = occ.started + 1,
                                 !.reexecuted_on = 0],
                             "commit", occ.started + 1)
                    [] control = "next" -> next_commit(attempted)
                    [] OTHER -> raise_from(attempted, "commit_transaction",
                                           "commit")
    /\ UNCHANGED <<main_vars, wait>>

\* commit_transaction returns None to the main block
OccCommitReturn ==
    /\ entry = "occ"
    /\ occ.pc = "commit_returning"
    /\ occ' = [occ EXCEPT !.pc = "done"]
    /\ UNCHANGED <<main_vars, wait>>

OccNext ==
    \/ OccCallExecute
    \/ OccExecute
    \/ OccExecuteReturn
    \/ OccCallCommit
    \/ OccCommit
    \/ OccCommitReturn

SpecOcc == OccInit /\ [][OccNext]_vars

---------------------------------------------------------------------------
\* wait_for_export_to_complete of export_journal.py.  A poll is a call of
\* describe_journal_export: it reports a status or raises a ClientError.
\* polls counts the polls, not_completed those that reported another status
\* than COMPLETED.

Statuses == {"IN_PROGRESS", "COMPLETED", "CANCELLED"}
PollResults == Statuses \cup {"ClientError"}

\* count = 0, before the while loop
WaitInit ==
    /\ entry = "wait"
    /\ NoMain
    /\ occ = NoOcc
    /\ wait = [NoWait EXCEPT !.pc = "polling"]

\* one round of the while loop: describe, return when COMPLETED, else sleep
\* and count
WaitPoll ==
    /\ entry = "wait"
    /\ wait.pc = "polling"
    /\ while_count(wait.count)
    /\ \E result \in PollResults :
          wait' =
              CASE result = "ClientError" ->
                     [wait EXCEPT !.pc = "raised", !.polls = @ + 1,
                                  !.outcome = Raised("ClientError")]
                [] result = "COMPLETED" ->
                     [wait EXCEPT !.pc = "returned", !.polls = @ + 1,
                                  !.status = result,
                                  !.outcome = Returned(ExportDescription(result))]
                [] OTHER ->
                     [wait EXCEPT !.polls = @ + 1, !.not_completed = @ + 1,
                                  !.status = result, !.count = @ + 1]
    /\ UNCHANGED <<main_vars, occ>>

\* the loop is over: raise RuntimeError
WaitRaise ==
    /\ entry = "wait"
    /\ wait.pc = "polling"
    /\ ~while_count(wait.count)
    /\ wait' = [wait EXCEPT !.pc = "raised",
                            !.outcome = Raised("RuntimeError")]
    /\ UNCHANGED <<main_vars, occ>>

WaitNext ==
    \/ WaitPoll
    \/ WaitRaise

\* the function runs on: every call and every sleep of it ends
SpecWait == WaitInit /\ [][WaitNext]_vars /\ WF_vars(WaitNext)

---------------------------------------------------------------------------
\* Properties of validate_qldb_hash_chain.py and journal_s3_export_reader.py.

HashOrEmpty(h) == IsHash(h) \/ h = EMPTY

\* every hash of every block is 32 bytes long or zero-length
WellFormedBlocks(blocks) ==
    \A k \in 1..Len(blocks) :
        /\ HashOrEmpty(blocks[k].block_hash)
        /\ HashOrEmpty(blocks[k].entries_hash)
        /\ HashOrEmpty(blocks[k].previous_block_hash)

\* pair k is (blocks[k], blocks[k + 1])
Linked(blocks, k) == blocks[k].block_hash = blocks[k + 1].previous_block_hash

Recomputed(blocks, k) ==
    LET expected == join_hash_pairwise(blocks[k + 1].entries_hash, blocks[k].block_hash)
    IN  expected.exc = "none" /\ BytesEqual(expected.value, blocks[k + 1].block_hash)

FailingPairs(blocks) ==
    {k \in 1..(Len(blocks) - 1) : ~(Linked(blocks, k) /\ Recomputed(blocks, k))}

Lowest(S) == CHOOSE i \in S : \A j \in S : i <= j

ChainDone == entry = "chain" /\ pc = "chain_done"

\* C13: verify succeeds exactly when every consecutive pair passes the link
\* check and the recomputation of the block hash; otherwise it raises a
\* RuntimeError whose message is 'Previous block hash does not match!' when
\* the first failing pair fails the link check and "Block hash doesn't match
\* ..." when that pair passes the link check; the two messages differ.
C13_ChainValidation ==
    (ChainDone /\ WellFormedBlocks(journal_blocks)) =>
        LET failing == FailingPairs(journal_blocks)
        IN  /\ ret.exc = "none" <=> failing = {}
            /\ failing # {} =>
                  /\ ret.exc = "RuntimeError"
                  /\ ret.value = IF Linked(journal_blocks, Lowest(failing))
                                 THEN BlockHashMismatch ELSE PreviousMismatch
            /\ PreviousMismatch # BlockHashMismatch

\* the second block's entries hash corrupted, its block hash left as it was
C13_Witness ==
    /\ ChainDone
    /\ Len(journal_blocks) = 3
    /\ FailingPairs(journal_blocks) = {1}
    /\ Linked(journal_blocks, 1)
    /\ ret = RaisedWith("RuntimeError", BlockHashMismatch)

\* the checks that a fail-fast validation in sequence order makes, from pair k
RECURSIVE ChecksFrom(_, _)
ChecksFrom(blocks, k) ==
    IF k >= Len(blocks) THEN <<>>
    ELSE IF ~Linked(blocks, k) THEN << <<k, "link">> >>
    ELSE IF ~Recomputed(blocks, k) THEN << <<k, "link">>, <<k, "hash">> >>
    ELSE << <<k, "link">>, <<k, "hash">> >> \o ChecksFrom(blocks, k + 1)

IsPrefix(a, b) == Len(a) <= Len(b) /\ a = SubSeq(b, 1, Len(a))

\* C14: the pairs are checked in sequence order, the link check of a pair
\* before the recomputation of its block hash; the failure raised is that of
\* the lowest failing pair, a pair that fails both checks being reported by
\* the link check; no check is made after the first failing one.
C14_FailFastInOrder ==
    (entry = "chain" /\ pc \in {"reducing", "chain_done"}) =>
        LET failing == FailingPairs(journal_blocks)
            expected == ChecksFrom(journal_blocks, 1)
        IN  /\ IsPrefix(examined, expected)
            /\ pc = "chain_done" => examined = expected
            /\ (pc = "chain_done" /\ failing # {}) =>
                  /\ ret.exc # "none"
                  /\ reduced = Lowest(failing) + 1
                  /\ ~Linked(journal_blocks, Lowest(failing)) =>
                        ret = RaisedWith("RuntimeError", PreviousMismatch)

C14_Witness ==
    /\ ChainDone
    /\ Len(journal_blocks) = 3
    /\ FailingPairs(journal_blocks) = {1, 2}
    /\ ~Linked(journal_blocks, 1)
    /\ ~Recomputed(journal_blocks, 1)
    /\ examined = << <<1, "link">> >>
    /\ ret = RaisedWith("RuntimeError", PreviousMismatch)

\* C15: verify of the empty list returns at once, before reduce is called;
\* verify of a one-block list returns without any check of that block.
C15_EmptyAndSingleSucceed ==
    (ChainDone /\ Len(journal_blocks) <= 1) =>
        /\ ret = Returned(None)
        /\ examined = <<>>
        /\ reduced = Len(journal_blocks)

C15_Witness ==
    /\ ChainDone
    /\ Len(journal_blocks) = 1
    /\ ret = Returned(None)

\* C16: as claimed, a failed chain validation of well-formed blocks is a
\* value returned to the caller; no exception is raised.
C16_FailureIsReturned ==
    (ChainDone /\ WellFormedBlocks(journal_blocks)) => ret.exc = "none"

\* C16, amended: a failed chain validation of well-formed blocks is raised as
\* a RuntimeError with one of the two messages; verify returns only None, and
\* only for a valid chain.
C16_FailureIsRaised ==
    (ChainDone /\ WellFormedBlocks(journal_blocks)) =>
        /\ FailingPairs(journal_blocks) # {} =>
              /\ ret.exc = "RuntimeError"
              /\ ret.value \in {PreviousMismatch, BlockHashMismatch}
        /\ ret.exc = "none" =>
              /\ ret.value = None
              /\ FailingPairs(journal_blocks) = {}

C16_Witness ==
    /\ ChainDone
    /\ WellFormedBlocks(journal_blocks)
    /\ Len(journal_blocks) = 2
    /\ ~Linked(journal_blocks, 1)
    /\ ret = RaisedWith("RuntimeError", PreviousMismatch)

\* the blocks of the data files, in the order of the files and within them
RECURSIVE BlocksOf(_)
BlocksOf(files) ==
    IF Len(files) = 0 THEN <<>>
    ELSE files[1].blocks \o BlocksOf(Tail(files))

\* C17: read_export returns the list of the exported journal blocks, one
\* JournalBlock per element, in the order of the manifest's keys and of the
\* files, and verify on it checks every consecutive pair of exported blocks.
C17_ExportIsListOfBlocks ==
    (entry = "export" /\ pc \in {"exported", "reducing", "chain_done"}) =>
        /\ \A k \in 1..Len(journal_blocks) : journal_blocks[k].kind = "JournalBlock"
        /\ journal_blocks = BlocksOf(export.files)
        /\ (pc = "chain_done" /\ ret.exc = "none") =>
              \A k \in 1..(Len(BlocksOf(export.files)) - 1) :
                  \E c \in 1..Len(examined) : examined[c] = <<k, "link">>

\* the outcome of the call of a frame when nothing else runs: the function
\* applied to the arguments as they were passed
AloneResult(frame) ==
    IF frame.op = "verify_document"
    THEN verify_document(frame.called_with.document_hash, frame.called_with.digest,
                         frame.called_with.proof)
    ELSE verify(frame.called_with.journal_blocks)

\* C18: join_hash_pairwise, calculate_root_hash_from_internal_hashes,
\* verify_document and verify leave their arguments as they were passed, at
\* every step and after the return, and whatever calls the thread made before:
\* the fold so far is that of the hashes taken so far, and the outcome of the
\* call is the function of its own arguments.
C18_CallsArePure ==
    entry = "threads" =>
        \A t \in Threads :
            LET frame == threads[t]
            IN  /\ frame.args = frame.called_with
                /\ (frame.op = "verify_document" /\ frame.status = "reducing") =>
                      calculate_root_hash_from_internal_hashes(
                          SubSeq(parse_proof(frame.called_with.proof), 1, frame.i),
                          frame.called_with.document_hash) = Returned(frame.accumulator)
                /\ frame.status = "returned" => frame.result = AloneResult(frame)

\* a thread that returns from a chain validation after an earlier call
C18_Witness ==
    /\ entry = "threads"
    /\ \E t \in Threads :
          /\ threads[t].status = "returned"
          /\ threads[t].earlier
          /\ threads[t].op = "verify"
          /\ Len(threads[t].called_with.journal_blocks) = 2
          /\ threads[t].args = threads[t].called_with
          /\ threads[t].result = Returned(None)

\* the bytes a call in the state "hashing" has passed to update()
OwnMessage(frame) ==
    IF frame.op = "verify_document"
    THEN join_start(frame.accumulator, Iterated(frame)[frame.i + 1]).concatenated
    ELSE join_start(Iterated(frame)[frame.i + 1].entries_hash,
                    frame.accumulator.block_hash).concatenated

\* C19: with several threads running verify_document and verify at once, in
\* every interleaving of their steps, the sha256 object of a call holds the
\* bytes of that call alone and every call returns what it returns when it
\* runs alone.
C19_ConcurrentCallsAsAlone ==
    entry = "threads" =>
        \A t \in Threads :
            /\ threads[t].status = "hashing" =>
                  new_hash_lib[new_hash_lib_of(t)] = OwnMessage(threads[t])
            /\ threads[t].status = "returned" =>
                  /\ threads[t].result.exc = AloneResult(threads[t]).exc
                  /\ threads[t].result.value = AloneResult(threads[t]).value

\* two calls, each interleaved with steps of the other, have both returned
C19_Witness ==
    /\ entry = "threads"
    /\ \E t \in Threads : \E u \in Threads \ {t} :
          /\ threads[t].status = "returned" /\ threads[u].status = "returned"
          /\ threads[t].interleaved /\ threads[u].interleaved
          /\ threads[t].op = "verify_document" /\ threads[t].result = Returned(TRUE)
          /\ threads[u].op = "verify" /\ threads[u].result = Returned(None)

\* the bits in which two bytes differ
DifferingBits(b, c) == {k \in 0..(UPPER_BOUND - 1) : BitOf(b, k) # BitOf(c, k)}

\* the same length, one byte different, one bit of that byte different
OneBitApart(original, flipped) ==
    /\ Len(flipped) = Len(original)
    /\ Cardinality(DifferAt(original, flipped)) = 1
    /\ \A i \in DifferAt(original, flipped) :
          Cardinality(DifferingBits(original[i + 1], flipped[i + 1])) = 1

\* the hashes flip_random_bit can have been called with to alter target
Originals(target) ==
    IF target = "digest" THEN {digest}
    ELSE IF target = "document_hash" THEN {document_hash}
    ELSE {proof.IonText[k] : k \in 1..Len(proof.IonText)}

\* C20: after flip_random_bit(original), original (the digest, document hash
\* or proof hash of the ledger) is as it was; for a non-empty original the
\* call has returned a value of the same length that differs from it in
\* exactly one bit of exactly one byte, and that value has taken its place in
\* the arguments of the next verification; for the empty original the call
\* has raised AssertionError and returned nothing.
C20_FlipsExactlyOneBit ==
    (entry = "verify" /\ pc \in {"flipped", "flip_failed"}) =>
        /\ pc = "flip_failed" =>
              /\ ret = Raised("AssertionError")
              /\ \E original \in Originals(altered) : Len(original) = 0
        /\ pc = "flipped" =>
              /\ ret.exc = "none"
              /\ \E original \in Originals(altered) :
                    /\ Len(original) # 0
                    /\ OneBitApart(original, ret.value)
              /\ altered = "digest" => args = [LedgerArgs EXCEPT !.digest = ret.value]
              /\ altered = "document_hash" =>
                    args = [LedgerArgs EXCEPT !.document_hash = ret.value]
              /\ altered = "proof" =>
                    \E k \in 1..Len(proof.IonText) :
                        /\ OneBitApart(proof.IonText[k], ret.value)
                        /\ args = [LedgerArgs EXCEPT !.proof.IonText[k] = ret.value]

\* the digest altered in a bit that was set
C20_Witness ==
    /\ entry = "verify"
    /\ pc = "flipped"
    /\ altered = "digest"
    /\ IsHash(digest)
    /\ OneBitApart(digest, ret.value)
    /\ \E i \in DifferAt(digest, ret.value) : ret.value[i + 1] < digest[i + 1]
    /\ args.digest = ret.value

\* two outcomes are the same return value or the same exception
SameOutcome(a, b) == a.exc = b.exc /\ a.value = b.value

\* the hashes the first block of a list is given in place of its own
FirstBlockHashes == EntriesHashes \cup BlockHashes \cup {EMPTY}

\* C26: verify checks nothing of the first block but its block hash: the
\* outcome is the same for the list with any other entries_hash and
\* previous_block_hash in its first block.
C26_FirstBlockUnchecked ==
    (ChainDone /\ Len(journal_blocks) >= 1) =>
        \A e \in FirstBlockHashes : \A p \in FirstBlockHashes :
            SameOutcome(ret, verify([journal_blocks EXCEPT
                                        ![1].entries_hash = e,
                                        ![1].previous_block_hash = p]))

\* a valid chain whose first block hash is not the hash of that block's own
\* entries_hash and previous_block_hash
C26_Witness ==
    /\ ChainDone
    /\ Len(journal_blocks) = 3
    /\ join_hash_pairwise(journal_blocks[1].entries_hash,
                          journal_blocks[1].previous_block_hash)
           # Returned(journal_blocks[1].block_hash)
    /\ ret = Returned(None)

\* C27: for a 32-byte leaf and a 32-byte first proof hash, verify_document
\* gives the same outcome with the two exchanged.
C27_LeafAndSiblingInterchangeable ==
    (/\ entry = "verify"
     /\ pc = "verified"
     /\ Len(proof.IonText) >= 1
     /\ IsHash(document_hash)
     /\ IsHash(proof.IonText[1])) =>
        SameOutcome(ret, verify_document(proof.IonText[1], digest,
                            [IonText |-> <<document_hash>> \o Tail(proof.IonText)]))

\* a sibling hash of a proof that verifies, distinct from the leaf
C27_Witness ==
    /\ entry = "verify"
    /\ pc = "verified"
    /\ Len(proof.IonText) = 2
    /\ IsHash(document_hash)
    /\ IsHash(proof.IonText[1])
    /\ IsHash(proof.IonText[2])
    /\ proof.IonText[1] # document_hash
    /\ ret = Returned(TRUE)
    /\ verify_document(proof.IonText[1], digest,
                       [IonText |-> <<document_hash>> \o Tail(proof.IonText)])
           = Returned(TRUE)

NotEmpty(h) == Len(h) # 0

\* C28: the fold skips the zero-length hashes of a proof: it is the fold of
\* the proof without them; with a zero-length leaf it is the fold of the
\* rest of those from the first of them, which is not hashed.
C28_EmptyProofHashesSkipped ==
    (entry = "verify" /\ pc = "folded") =>
        LET present == SelectSeq(proof.IonText, NotEmpty)
        IN  /\ SameOutcome(ret,
                   calculate_root_hash_from_internal_hashes(present, document_hash))
            /\ (Len(document_hash) = 0 /\ Len(present) > 0) =>
                  /\ SameOutcome(ret,
                         calculate_root_hash_from_internal_hashes(Tail(present),
                                                                  Head(present)))
                  /\ Len(present) = 1 => ret = Returned(present[1])

C28_Witness ==
    /\ entry = "verify"
    /\ pc = "folded"
    /\ Len(proof.IonText) = 2
    /\ proof.IonText[1] = EMPTY
    /\ IsHash(proof.IonText[2])
    /\ IsHash(document_hash)
    /\ ret = Returned(SHA256(IF compare_hash_values(document_hash, proof.IonText[2]).value < 0
                             THEN document_hash \o proof.IonText[2]
                             ELSE proof.IonText[2] \o document_hash))

\* the third hashes the order of two hashes is tested against
ThirdHashes == {Sparse(v0, 0, v31) : v0 \in ByteSamples, v31 \in ByteSamples}

Compare(a, b) == compare_hash_values(a, b).value

\* C29: on 32-byte hashes compare_hash_values is zero for equal hashes only,
\* changes sign with its arguments exchanged, orders transitively, and
\* returns a value in -255..255.
C29_TotalOrderComparator ==
    (entry = "hash_pair" /\ pc = "compared" /\ IsHash(hash1) /\ IsHash(hash2)) =>
        /\ ret.exc = "none"
        /\ ret.value \in (-255)..255
        /\ ret.value = 0 <=> BytesEqual(hash1, hash2)
        /\ Compare(hash2, hash1) = -ret.value
        /\ \A h3 \in ThirdHashes :
              /\ (ret.value < 0 /\ Compare(hash2, h3) < 0) => Compare(hash1, h3) < 0
              /\ (ret.value <= 0 /\ Compare(hash2, h3) <= 0) => Compare(hash1, h3) <= 0
              /\ (ret.value = 0) => Compare(hash1, h3) = Compare(hash2, h3)

\* 0x00 before 0x80 is the larger, and the result is not a signed byte
C29_Witness ==
    /\ entry = "hash_pair"
    /\ pc = "compared"
    /\ IsHash(hash1)
    /\ IsHash(hash2)
    /\ hash1[HASH_LENGTH] = 0
    /\ hash2[HASH_LENGTH] = 128
    /\ ret = Returned(128)
    /\ Compare(hash2, hash1) = -128

\* the blocks of the concatenated structs, one for each, in order
StructBlocks(structs) == [k \in 1..Len(structs) |-> Block(structs[k])]

\* C24: get_journal_blocks splits the text of n concatenated Ion structs at
\* every "} {", gives each piece back the one brace the split took from it,
\* and returns the n journal blocks in their original order, for every
\* n >= 1.  (Not so for n = 1: nothing was split off, and the only piece
\* still gets a closing brace appended.)
C24_BracesRestoredOnce ==
    (entry = "s3_object" /\ pc = "parsed")
        => SameOutcome(ret, Returned(StructBlocks(s3_object.structs)))

\* an object of one struct has been parsed
C24_OneStruct ==
    /\ entry = "s3_object"
    /\ pc = "parsed"
    /\ Len(s3_object.structs) = 1

\* for two structs and more every piece is restored and parsed
C24_SeveralStructs ==
    (entry = "s3_object" /\ pc = "parsed" /\ Len(s3_object.structs) >= 2)
        => SameOutcome(ret, Returned(StructBlocks(s3_object.structs)))

---------------------------------------------------------------------------
\* Properties of occ_conflict_demo.py.

\* execute_transaction is about to make a further attempt
ExecutePending == occ.pc = "execute" /\ occ.last_execute.outcome # "none"

\* C21: execute_transaction makes at most RETRY_LIMIT (4) execute attempts
\* and stops at the first success, and every attempt that follows an
\* unsuccessful one runs on a transaction started from the session after
\* that failure, never again on the transaction that just failed.  (Not so
\* after a ClientError that is no OCC conflict: it is swallowed and the next
\* attempt uses the same transaction.)
C21_RetriesOnNewTransaction ==
    entry = "occ" =>
        /\ occ.executes <= RETRY_LIMIT
        /\ ExecutePending =>
              /\ occ.last_execute.outcome # "ok"
              /\ occ.execute_transaction > occ.last_execute.transaction

\* what remains of C21 in the code: at most RETRY_LIMIT attempts, none after
\* a success, and a new transaction after an OCC conflict
C21_RetriesAfterOccOnNewTransaction ==
    entry = "occ" =>
        /\ occ.executes <= RETRY_LIMIT
        /\ ExecutePending =>
              /\ occ.last_execute.outcome # "ok"
              /\ occ.last_execute.outcome = "occ" =>
                    occ.execute_transaction > occ.last_execute.transaction

\* C22: commit_transaction calls commit at most RETRY_LIMIT (4) times and
\* stops after the first successful commit; after a commit that fails with
\* an OCC conflict it starts a new transaction and re-executes the statement
\* on it before the next commit attempt.
C22_CommitRetries ==
    entry = "occ" =>
        /\ occ.commits <= RETRY_LIMIT
        /\ occ.last_commit.outcome = "ok" =>
              occ.pc \in {"commit_returning", "done"}
        /\ (occ.pc = "commit" /\ occ.last_commit.outcome = "occ") =>
              /\ occ.commit_transaction > occ.last_commit.transaction
              /\ occ.reexecuted_on = occ.commit_transaction
        /\ (occ.pc = "execute" /\ occ.caller = "commit" /\ occ.executes = 0) =>
              /\ occ.last_commit.outcome = "occ"
              /\ occ.commit_transaction = occ.started
              /\ occ.execute_transaction = occ.commit_transaction

\* the fourth commit is about to be tried after an OCC conflict of the third
C22_Witness ==
    /\ entry = "occ"
    /\ occ.pc = "commit"
    /\ occ.commits = RETRY_LIMIT - 1
    /\ occ.last_commit.outcome = "occ"
    /\ occ.reexecuted_on = occ.commit_transaction

\* C25: every commit is issued on the transaction on which the statement was
\* last successfully executed: when execute_transaction replaces the
\* transaction after an OCC conflict, its caller never afterwards commits
\* the superseded transaction.  (Not so: execute_transaction rebinds only
\* its own local name, and the caller commits the transaction it passed in.)
C25_CommitOnExecutedTransaction ==
    (entry = "occ" /\ occ.last_commit.outcome # "none"
                   /\ occ.last_commit.executed_on # 0)
        => occ.last_commit.transaction = occ.last_commit.executed_on

\* a commit was issued on a transaction that execute_transaction replaced
C25_SupersededCommitted ==
    /\ entry = "occ"
    /\ occ.last_commit.outcome # "none"
    /\ occ.last_commit.executed_on > occ.last_commit.transaction

\* an execute or commit attempt failed with something else than a ClientError
AttemptError ==
    \/ /\ occ.raised_by.call = "execute_statement"
       /\ occ.last_execute.outcome = "error"
    \/ /\ occ.raised_by.call = "commit"
       /\ occ.last_commit.outcome = "error"

\* start_transaction raised in the except clause of an OCC conflict
StartError ==
    /\ occ.raised_by.call = "start_transaction"
    /\ \/ /\ occ.raised_by.function = "execute_transaction"
          /\ occ.last_execute.outcome = "occ"
       \/ /\ occ.raised_by.function = "commit_transaction"
          /\ occ.last_commit.outcome = "occ"

\* all RETRY_LIMIT attempts of the function that was left by an exception
\* failed with a ClientError
AllAttemptsClientErrors ==
    \/ /\ occ.raised_by.function = "execute_transaction"
       /\ occ.executes = RETRY_LIMIT
       /\ occ.last_execute.outcome \in ClientErrors
    \/ /\ occ.raised_by.function = "commit_transaction"
       /\ occ.commits = RETRY_LIMIT
       /\ occ.last_commit.outcome \in ClientErrors

\* execute_transaction and commit_transaction return None once their
\* attempts are used up on ClientErrors, and the caller goes on
ExhaustedReturns ==
    /\ (occ.executes = RETRY_LIMIT /\ occ.last_execute.outcome \in ClientErrors) =>
          /\ occ.pc # "execute"
          /\ occ.pc = "execute_returning" =>
                occ.returned = [function |-> "execute_transaction",
                                after |-> "exhausted"]
    /\ (occ.commits = RETRY_LIMIT /\ occ.last_commit.outcome \in ClientErrors
           /\ occ.pc \notin {"execute", "execute_returning", "raised"}) =>
          /\ occ.pc \in {"commit_returning", "done"}
          /\ occ.returned = [function |-> "commit_transaction",
                             after |-> "exhausted"]
    /\ (occ.pc = "main_commit" /\ occ.returned.function = "execute_transaction") =>
          occ.returned.after \in {"break", "exhausted"}

C30_StartRaisedAfterLastAttempt ==
    /\ entry = "occ"
    /\ occ.pc = "raised"
    /\ occ.raised_by = [function |-> "execute_transaction",
                        call |-> "start_transaction"]
    /\ occ.executes = RETRY_LIMIT
    /\ occ.last_execute.outcome = "occ"

---------------------------------------------------------------------------
\* Properties of export_journal.py.

WaitDone == wait.pc \in {"returned", "raised"}

\* the polls so far and the way the function has ended
WaitOutcome ==
    /\ wait.polls <= MAX_RETRY_COUNT
    /\ wait.pc = "polling" => wait.polls = wait.not_completed
    /\ wait.pc = "returned" =>
          /\ wait.status = "COMPLETED"
          /\ wait.polls = wait.not_completed + 1
          /\ wait.outcome.exc = "none"
          /\ wait.outcome.value = ExportDescription("COMPLETED")
    /\ (wait.pc = "raised" /\ wait.outcome.exc = "RuntimeError") =>
          /\ wait.polls = MAX_RETRY_COUNT
          /\ wait.not_completed = MAX_RETRY_COUNT
    /\ (WaitDone /\ wait.not_completed = MAX_RETRY_COUNT) =>
          wait.outcome.exc = "RuntimeError"

\* C23: wait_for_export_to_complete polls describe_journal_export at most
\* MAX_RETRY_COUNT (40) times; it returns the export description at the first
\* poll whose Status is COMPLETED and polls no further, and it raises
\* RuntimeError exactly when none of the 40 polls reported COMPLETED, so it
\* always terminates.
C23_WaitTerminates ==
    /\ [](entry = "wait" => WaitOutcome)
    /\ [][(entry = "wait" /\ WaitDone) => wait' = wait]_vars
    /\ (entry = "wait") ~> WaitDone

\* forty polls, none of them COMPLETED, and the RuntimeError
C23_Witness ==
    /\ entry = "wait"
    /\ wait.pc = "raised"
    /\ wait.outcome.exc = "RuntimeError"
    /\ wait.polls = MAX_RETRY_COUNT

\* the export is reported COMPLETED at the last poll there is
C23_CompletedAtLastPoll ==
    /\ entry = "wait"
    /\ wait.pc = "returned"
    /\ wait.polls = MAX_RETRY_COUNT

====
